---- MODULE Spec2Model ----
(***************************************************************************)
(* Model of the recursion service: the engine RecursiveAlgorithms          *)
(* (backend/recursive_algorithm.py), the dispatcher OptimizedRecursion     *)
(* (backend/optimization.py) and the two endpoints of backend/app.py that  *)
(* read and clear the metrics.                                             *)
(*                                                                         *)
(* The specifications share the variables:                                 *)
(*   Spec       single dispatches, clear_metrics and fibonacci_memoized    *)
(*              calls on one OptimizedRecursion object;                    *)
(*   SpecBatch  one process_multiple_requests call on a fresh object;      *)
(*   SpecFib    the Fibonacci routines of the engine applied to one        *)
(*              argument;                                                  *)
(*   SpecTree   the two tree traversals of the engine applied to one tree; *)
(*   SpecPath   pathfinding_naive applied to one grid and target;         *)
(*   SpecTreeTask  tree_traversal dispatches on one OptimizedRecursion     *)
(*              object.                                                    *)
(*                                                                         *)
(* Not modelled: wall-clock values (timestamp, execution_time), the        *)
(* tracemalloc peak, psutil's system_metrics and, but for the tree         *)
(* traversals, the value in the "result" key of a dispatch result.         *)
(***************************************************************************)
EXTENDS Integers, Sequences, FiniteSets, TLC

(***************************************************************************)
(* Bounds of the model.                                                    *)
(***************************************************************************)
\* dispatches issued in one behaviour of Spec
MaxRequests == 2
\* largest argument handed to the Fibonacci routines in SpecFib
MaxFibArg == 30
\* SpecBatch: longest batch of mixed requests
MaxSmallBatch == 2
\* SpecBatch: a member leaves the gate while at most MaxOvertake older
\* members still hold it
MaxOvertake == 1
\* SpecTree: most nodes of a tree handed to the traversals
MaxTreeNodes == 6
\* SpecPath: largest size of the grids taken with every pattern of obstacles
MaxGridSize == 3
\* SpecTreeTask: deepest generated tree whose traversal is computed
MaxChainDepth == 8

(***************************************************************************)
(* Program constants.                                                      *)
(***************************************************************************)
\* sys.getrecursionlimit() of CPython
RecursionLimit == 1000
\* self.max_recursion_depth = sys.getrecursionlimit() - 50
max_recursion_depth == RecursionLimit - 50
\* len(f_code.co_names) of the frame fibonacci_naive inspects: when the
\* frame two callers up is fibonacci_naive itself these are its global and
\* attribute names (ValueError, hasattr, sys, len, _getframe, f_back,
\* f_code, co_names, max_recursion_depth, RecursionError, fibonacci_naive)
\* and number 11; process_recursive_task, the other frame it can meet, has 24
CoNamesCount == 11
\* if n > 10000 and not use_optimization
UnoptimizedDepthLimit == 10000
\* if n > 35: naive Fibonacci guard of the dispatcher
NaiveFibLimit == 35
\* if n > 500: naive tree traversal guard of the dispatcher
NaiveTreeLimit == 500
\* if depth > 1000: fibonacci_memoized safety check
MemoDepthLimit == 1000
\* if depth > 1000: safety check of tree_traversal_naive and pathfinding_naive
TraversalDepthLimit == 1000
\* recursion_depth_metrics[-100:] of GET /metrics
RecentWindow == 100
\* semaphore = asyncio.Semaphore(50)
SemaphoreLimit == 50

None == "None"

VARIABLES
    request_counter,          \* OptimizedRecursion.request_counter
    error_counter,            \* OptimizedRecursion.error_counter
    recursion_depth_metrics,  \* RecursiveAlgorithms.recursion_depth_metrics
    memo,                     \* RecursiveAlgorithms.memo
    issued,                   \* request_id of every result returned, in call order
    last,                     \* the call that produced this state, with its pre-state
    requests,                 \* process_multiple_requests: its argument
    pc,                       \* member -> "pending", "admitted" or "done"
    results,                  \* member -> the result of its process_recursive_task
    semaphore,                \* the value of the asyncio.Semaphore
    gathered,                 \* what process_multiple_requests returned
    overtaken,                \* some member left the gate before an older one
    engine_arg,               \* the argument of the engine routines: n in
                              \* SpecFib, the tree in SpecTree, the grid and
                              \* the target in SpecPath
    engine_out,               \* routine -> outcome of the call on engine_arg
    tracemalloc               \* the tracemalloc module: whether it is tracing,
                              \* and its start and stop calls so far

objectVars == <<request_counter, error_counter, recursion_depth_metrics, memo,
                issued, last>>
batchVars == <<requests, pc, results, semaphore, gathered, overtaken>>
engineVars == <<engine_arg, engine_out>>
vars == <<objectVars, batchVars, engineVars, tracemalloc>>

(***************************************************************************)
(* Recursion engine: Fibonacci.  An outcome is the value returned or the   *)
(* exception raised.                                                       *)
(***************************************************************************)
Returned(v) == [kind |-> "ok", value |-> v]
Raised(e) == [kind |-> e, value |-> 0]

\* current_depth of fibonacci_naive: the number of names of a code object
current_depth == CoNamesCount

\* the value of fibonacci_naive(n) for n >= 0 when the depth check passes:
\* the recursive calls get n - 1 >= 0 and n - 2 >= 0 and meet the same
\* current_depth, so none of them raises
RECURSIVE fibonacci_naive_value(_)
fibonacci_naive_value(n) ==
    IF n <= 1 THEN n
    ELSE fibonacci_naive_value(n - 1) + fibonacci_naive_value(n - 2)

fibonacci_naive(n) ==
    IF n < 0 THEN Raised("ValueError")
    ELSE IF n <= 1 THEN Returned(n)
    ELSE IF current_depth > max_recursion_depth THEN Raised("RecursionError")
    ELSE Returned(fibonacci_naive_value(n))

\* the loop "for _ in range(2, n + 1): a, b = b, a + b" from its i-th round on
RECURSIVE fib_loop(_, _, _, _)
fib_loop(i, n, a, b) ==
    IF i > n THEN b ELSE fib_loop(i + 1, n, b, a + b)

\* fibonacci_iterative with "a, b = 1, 1" for "a, b = 0, 1"
fibonacci_iterative_starts_at_one(n) ==
    IF n < 0 THEN Raised("ValueError")
    ELSE IF n <= 1 THEN Returned(n)
    ELSE Returned(fib_loop(2, n, 1, 1))

fibonacci_iterative(n) ==
    IF n < 0 THEN Raised("ValueError")
    ELSE IF n <= 1 THEN Returned(n)
    ELSE Returned(fib_loop(2, n, 0, 1))

\* fibonacci_memoized(n, depth) run on the cache m: the outcome and the
\* cache it leaves
RECURSIVE fibonacci_memoized(_, _, _)
fibonacci_memoized(n, depth, m) ==
    IF depth > MemoDepthLimit THEN [out |-> Raised("RecursionError"), memo |-> m]
    ELSE IF n < 0 THEN [out |-> Raised("ValueError"), memo |-> m]
    ELSE IF n \in DOMAIN m THEN [out |-> Returned(m[n]), memo |-> m]
    ELSE IF n <= 1 THEN [out |-> Returned(n), memo |-> m]
    ELSE LET a == fibonacci_memoized(n - 1, depth + 1, m)
         IN  IF a.out.kind # "ok" THEN a
             ELSE LET b == fibonacci_memoized(n - 2, depth + 1, a.memo)
                  IN  IF b.out.kind # "ok" THEN b
                      ELSE LET result == a.out.value + b.out.value
                           IN  [out |-> Returned(result),
                                memo |-> [k \in DOMAIN b.memo \cup {n} |->
                                            IF k = n THEN result ELSE b.memo[k]]]

EmptyMemo == [k \in {} |-> 0]

(***************************************************************************)
(* Recursion engine: tree traversal.  A node is the record                 *)
(* [value, children], children a sequence of nodes in stored order; a node *)
(* without the "children" key reads as one with no children               *)
(* (node.get('children', [])).  A node record is never the empty dict, the *)
(* one root tree_traversal_iterative answers with [] ("if not root").      *)
(***************************************************************************)
Node(value, children) == [value |-> value, children |-> children]

\* reversed(children)
RECURSIVE reversed(_)
reversed(s) ==
    IF s = <<>> THEN <<>> ELSE Append(reversed(Tail(s)), Head(s))

\* tree_traversal_naive(node, depth); extend_results is its loop
\* "for child in children: results.extend(...)" from the i-th child on
RECURSIVE tree_traversal_naive(_, _)
RECURSIVE extend_results(_, _, _, _)
tree_traversal_naive(node, depth) ==
    IF depth > TraversalDepthLimit THEN Raised("RecursionError")
    ELSE extend_results(node.children, 1, depth, <<node.value>>)

extend_results(children, i, depth, visited) ==
    IF i > Len(children) THEN Returned(visited)
    ELSE LET sub == tree_traversal_naive(children[i], depth + 1)
         IN  IF sub.kind # "ok" THEN sub
             ELSE extend_results(children, i + 1, depth, visited \o sub.value)

\* the loop "while stack" of tree_traversal_iterative: the node popped is
\* the last of the stack
RECURSIVE traversal_loop(_, _)
traversal_loop(stack, visited) ==
    IF stack = <<>> THEN visited
    ELSE LET node == stack[Len(stack)]
             rest == SubSeq(stack, 1, Len(stack) - 1)
         IN  traversal_loop(rest \o reversed(node.children),
                            Append(visited, node.value))

\* tree_traversal_iterative with "stack.extend(children)" for
\* "stack.extend(reversed(children))"
RECURSIVE traversal_loop_unreversed(_, _)
traversal_loop_unreversed(stack, visited) ==
    IF stack = <<>> THEN visited
    ELSE LET node == stack[Len(stack)]
             rest == SubSeq(stack, 1, Len(stack) - 1)
         IN  traversal_loop_unreversed(rest \o node.children,
                                       Append(visited, node.value))

tree_traversal_iterative_unreversed(root) ==
    Returned(traversal_loop_unreversed(<<root>>, <<>>))

tree_traversal_iterative(root) == Returned(traversal_loop(<<root>>, <<>>))

(***************************************************************************)
(* Recursion engine: pathfinding.  A grid is a function x -> y -> 0 or 1   *)
(* on 0 .. size - 1, 1 an obstacle; a path is a sequence of cells <<x, y>>.*)
(***************************************************************************)
\* for dx, dy in [(1, 0), (-1, 0), (0, 1), (0, -1)]
Directions == <<(<<1, 0>>), (<<-1, 0>>), (<<0, 1>>), (<<0, -1>>)>>

Cells(path) == {path[i] : i \in 1..Len(path)}

\* x < 0 or x >= len(grid) or y < 0 or y >= len(grid[0]) or grid[x][y] == 1
blocked(grid, x, y) ==
    \/ x < 0
    \/ x >= Cardinality(DOMAIN grid)
    \/ y < 0
    \/ y >= Cardinality(DOMAIN grid[0])
    \/ grid[x][y] = 1

\* min(paths, key=len) taking the last of the shortest for the first
RECURSIVE min_by_len_last(_, _, _)
min_by_len_last(paths, i, best) ==
    IF i > Len(paths) THEN best
    ELSE min_by_len_last(paths, i + 1,
                         IF Len(paths[i]) <= Len(best) THEN paths[i] ELSE best)

\* min(paths, key=len) from the i-th path on: the first of the shortest
RECURSIVE min_by_len(_, _, _)
min_by_len(paths, i, best) ==
    IF i > Len(paths) THEN best
    ELSE min_by_len(paths, i + 1,
                    IF Len(paths[i]) < Len(best) THEN paths[i] ELSE best)

\* "min(paths, key=len) if paths else []" with the last of the shortest
shortest_or_empty_last(paths) ==
    IF paths = <<>> THEN <<>> ELSE min_by_len_last(paths, 2, paths[1])

\* min(paths, key=len) if paths else []
shortest_or_empty(paths) ==
    IF paths = <<>> THEN <<>> ELSE min_by_len(paths, 2, paths[1])

\* the loop over the directions of pathfinding_naive, given the outcomes of
\* the four recursive calls in the order of Directions: the first exception
\* among them propagates, otherwise the non-empty paths are collected in
\* that order
explore_neighbors(new_paths) ==
    IF \E i \in 1..Len(new_paths) : new_paths[i].kind # "ok"
    THEN new_paths[CHOOSE i \in 1..Len(new_paths) :
                    /\ new_paths[i].kind # "ok"
                    /\ \A j \in 1..(i - 1) : new_paths[j].kind = "ok"]
    ELSE Returned(shortest_or_empty(
            SelectSeq([i \in 1..Len(new_paths) |-> new_paths[i].value],
                      LAMBDA new_path : new_path # <<>>)))

\* pathfinding_naive(grid, x, y, target_x, target_y, path, depth)
RECURSIVE pathfinding_naive(_, _, _, _, _, _, _)
pathfinding_naive(grid, x, y, target_x, target_y, path, depth) ==
    IF depth > TraversalDepthLimit THEN Raised("RecursionError")
    ELSE IF <<x, y>> \in Cells(path) THEN Returned(<<>>)
    ELSE IF blocked(grid, x, y) THEN Returned(<<>>)
    ELSE IF x = target_x /\ y = target_y THEN Returned(Append(path, <<x, y>>))
    ELSE explore_neighbors(
            <<pathfinding_naive(grid, x + Directions[1][1], y + Directions[1][2],
                                target_x, target_y, Append(path, <<x, y>>),
                                depth + 1),
              pathfinding_naive(grid, x + Directions[2][1], y + Directions[2][2],
                                target_x, target_y, Append(path, <<x, y>>),
                                depth + 1),
              pathfinding_naive(grid, x + Directions[3][1], y + Directions[3][2],
                                target_x, target_y, Append(path, <<x, y>>),
                                depth + 1),
              pathfinding_naive(grid, x + Directions[4][1], y + Directions[4][2],
                                target_x, target_y, Append(path, <<x, y>>),
                                depth + 1)>>)

\* generate_grid(size): free cells but for the middle column of the rows
\* range(1, size - 1, 2)
generate_grid(size) ==
    [x \in 0..(size - 1) |->
        [y \in 0..(size - 1) |->
            IF x % 2 = 1 /\ x < size - 1 /\ y = size \div 2 THEN 1 ELSE 0]]

(***************************************************************************)
(* Metrics collector.                                                      *)
(***************************************************************************)
\* calculate_recursion_metrics: the store with one more record
calculate_recursion_metrics(store, n, algorithm, success) ==
    Append(store, [recursion_depth |-> n, algorithm |-> algorithm,
                   success |-> success])

\* the last k records of the store, oldest first (store[-k:])
recent(store, k) ==
    IF Len(store) <= k THEN store
    ELSE SubSeq(store, Len(store) - k + 1, Len(store))

\* GET /metrics
get_metrics ==
    [recursion_metrics |-> recent(recursion_depth_metrics, RecentWindow),
     total_requests |-> Len(recursion_depth_metrics)]

\* get_performance_stats; error_rate is the quotient
\* error_rate_num / error_rate_den, and 0 when request_counter is 0
get_performance_stats ==
    LET successful_requests ==
            {i \in 1..Len(recursion_depth_metrics) :
                recursion_depth_metrics[i].success}
        failed_requests ==
            {i \in 1..Len(recursion_depth_metrics) :
                ~recursion_depth_metrics[i].success}
    IN  [total_requests |-> request_counter,
         successful_requests |-> Cardinality(successful_requests),
         failed_requests |-> Cardinality(failed_requests),
         error_rate_num |-> IF request_counter > 0
                            THEN Cardinality(failed_requests) * 100 ELSE 0,
         error_rate_den |-> IF request_counter > 0 THEN request_counter ELSE 1]

(***************************************************************************)
(* Task dispatcher.                                                        *)
(***************************************************************************)
NoError == [type |-> "none", msg |-> "none"]
Error(type, msg) == [type |-> type, msg |-> msg]

\* generate_deep_tree(depth) recurses depth + 1 frames deep; CPython raises
\* RecursionError when the stack would pass the recursion limit
generate_deep_tree_overflows(depth) == depth + 1 > RecursionLimit

\* generate_deep_tree(depth): a chain of depth nodes over a leaf; the label
\* f"node_{depth}" is written depth and the label "leaf" is written 0
RECURSIVE generate_deep_tree(_)
generate_deep_tree(depth) ==
    IF depth <= 0 THEN Node(0, <<>>)
    ELSE Node(depth, <<generate_deep_tree(depth - 1)>>)

\* what the tree_traversal branch of process_recursive_task computes for
\* the "result" key when neither of its guards stops it
tree_traversal_result(n, use_optimization) ==
    IF use_optimization THEN tree_traversal_iterative(generate_deep_tree(n))
    ELSE tree_traversal_naive(generate_deep_tree(n), 0)

\* the engine routine returns, or raises something unexpected
engine_call(routines, fault) ==
    [raised |-> IF fault THEN Error("Exception", "unexpected") ELSE NoError,
     invoked |-> routines]

\* validate with "n < 0" for "n <= 0"
validate_accepts_zero(n, use_optimization) ==
    IF n < 0 THEN Error("ValueError", "Depth must be positive")
    ELSE IF n > UnoptimizedDepthLimit /\ ~use_optimization
         THEN Error("ValueError", "Unoptimized recursion depth too high")
    ELSE NoError

\* the input validation that opens the try block of process_recursive_task
validate(n, use_optimization) ==
    IF n <= 0 THEN Error("ValueError", "Depth must be positive")
    ELSE IF n > UnoptimizedDepthLimit /\ ~use_optimization
         THEN Error("ValueError", "Unoptimized recursion depth too high")
    ELSE NoError

\* the guard with "n > 36" for "n > 35"
naive_fibonacci_too_slow_off_by_one(n) == n > NaiveFibLimit + 1

\* if n > 35: raise RecursionError("Naive Fibonacci too slow ...")
naive_fibonacci_too_slow(n) == n > NaiveFibLimit

\* naive_tree_too_deep with "n > 501" for "n > 500"
naive_tree_too_deep_off_by_one(n) == n > NaiveTreeLimit + 1

\* if n > 500: raise RecursionError("Naive tree traversal too deep ...")
naive_tree_too_deep(n) == n > NaiveTreeLimit

\* the try block of process_recursive_task up to the engine's return: the
\* exception that leaves it (none when the engine returns) and the engine
\* routines and input generators it invoked, in order
run_task(algorithm, n, use_optimization, fault) ==
    IF validate(n, use_optimization) # NoError
    THEN [raised |-> validate(n, use_optimization), invoked |-> <<>>]
    ELSE IF algorithm = "fibonacci" THEN
        IF use_optimization THEN engine_call(<<"fibonacci_iterative">>, fault)
        ELSE IF naive_fibonacci_too_slow(n)
             THEN [raised |-> Error("RecursionError", "Naive Fibonacci too slow"),
                   invoked |-> <<>>]
        ELSE IF ~fault /\ n > 1 /\ current_depth > max_recursion_depth
             THEN [raised |-> Error("RecursionError", "Approaching recursion limit"),
                   invoked |-> <<"fibonacci_naive">>]
        ELSE engine_call(<<"fibonacci_naive">>, fault)
    ELSE IF algorithm = "tree_traversal" THEN
        IF generate_deep_tree_overflows(n)
        THEN [raised |-> Error("RecursionError", "maximum recursion depth exceeded"),
              invoked |-> <<"generate_deep_tree">>]
        ELSE IF use_optimization
             THEN engine_call(<<"generate_deep_tree", "tree_traversal_iterative">>, fault)
        ELSE IF naive_tree_too_deep(n)
             THEN [raised |-> Error("RecursionError", "Naive tree traversal too deep"),
                   invoked |-> <<"generate_deep_tree">>]
        ELSE engine_call(<<"generate_deep_tree", "tree_traversal_naive">>, fault)
    ELSE IF algorithm = "pathfinding" THEN
        engine_call(<<"generate_grid", "pathfinding_naive">>, fault)
    ELSE [raised |-> Error("ValueError", "Unknown algorithm"), invoked |-> <<>>]

\* the tracemalloc module before its first start
NotTracing == [tracing |-> FALSE, starts |-> 0, stops |-> 0, overlapped |-> FALSE]

\* tracemalloc after one more call: start opens a scope unless one is open
\* (then it changes nothing: the scopes overlap), stop closes the open one
tracemalloc_call(tm, call) ==
    IF call = "start"
    THEN [tm EXCEPT !.tracing = TRUE, !.starts = @ + 1,
                    !.overlapped = @ \/ tm.tracing]
    ELSE IF call = "stop"
    THEN [tm EXCEPT !.tracing = FALSE, !.stops = @ + 1]
    ELSE tm

RECURSIVE tracemalloc_after(_, _)
tracemalloc_after(tm, calls) ==
    IF calls = <<>> THEN tm
    ELSE tracemalloc_after(tracemalloc_call(tm, Head(calls)), Tail(calls))

\* tracemalloc_calls without the stop of the "except Exception" branch
tracemalloc_calls_leaking(raised) ==
    IF raised = NoError THEN <<"start", "get_traced_memory", "stop">>
    ELSE IF raised.type = "RecursionError" THEN <<"start", "stop">>
    ELSE <<"start">>

\* the tracemalloc calls of process_recursive_task on the exit path taken:
\* start before the try block, then get_traced_memory and stop after the
\* task, or stop in the except branch
tracemalloc_calls(raised) ==
    IF raised = NoError THEN <<"start", "get_traced_memory", "stop">>
    ELSE IF raised.type = "RecursionError" THEN <<"start", "stop">>
    ELSE <<"start", "stop">>

\* process_recursive_task run on the counters rc, ec and the store: what it
\* leaves in them and the result it returns
process_recursive_task(rc, ec, store, algorithm, n, use_optimization, fault) ==
    LET request_id == rc + 1
        run == run_task(algorithm, n, use_optimization, fault)
    IN  IF run.raised = NoError THEN
            [request_counter |-> request_id,
             error_counter |-> ec,
             metrics |-> calculate_recursion_metrics(store, n, algorithm, TRUE),
             invoked |-> run.invoked,
             tracemalloc_calls |-> tracemalloc_calls(run.raised),
             result |-> [success |-> TRUE, error |-> NoError,
                         recursion_depth |-> n, request_id |-> request_id]]
        ELSE IF run.raised.type = "RecursionError" THEN
            [request_counter |-> request_id,
             error_counter |-> ec + 1,
             metrics |-> calculate_recursion_metrics(store, n, algorithm, FALSE),
             invoked |-> run.invoked,
             tracemalloc_calls |-> tracemalloc_calls(run.raised),
             result |-> [success |-> FALSE, error |-> run.raised,
                         recursion_depth |-> n, request_id |-> request_id]]
        ELSE
            [request_counter |-> request_id,
             error_counter |-> ec + 1,
             metrics |-> store,
             invoked |-> run.invoked,
             tracemalloc_calls |-> tracemalloc_calls(run.raised),
             result |-> [success |-> FALSE, error |-> run.raised,
                         recursion_depth |-> n, request_id |-> request_id]]

\* clear_metrics without self.memo.clear()
clear_metrics_keeps_memo == [metrics |-> <<>>, memo |-> memo]

\* RecursiveAlgorithms.clear_metrics: the store and the cache it leaves
clear_metrics == [metrics |-> <<>>, memo |-> EmptyMemo]

(***************************************************************************)
(* Spec: calls on one OptimizedRecursion object.                           *)
(***************************************************************************)
Algorithms == {"fibonacci", "tree_traversal", "pathfinding", "sorting"}
Depths == {-1, 0, NaiveFibLimit, NaiveFibLimit + 1, NaiveTreeLimit + 1,
          UnoptimizedDepthLimit, UnoptimizedDepthLimit + 1}
MemoArgs == {2, 3}

NoResult == [success |-> FALSE, error |-> NoError, recursion_depth |-> 0,
             request_id |-> 0]

\* the record kept in "last" for the call op
Call(op, algorithm, n, optimized, fault, result, invoked) ==
    [op |-> op, algorithm |-> algorithm, n |-> n, optimized |-> optimized,
     fault |-> fault, result |-> result, invoked |-> invoked,
     pre_metrics |-> recursion_depth_metrics,
     pre_request_counter |-> request_counter,
     pre_error_counter |-> error_counter,
     pre_memo |-> memo]

NoCall ==
    [op |-> "init", algorithm |-> None, n |-> 0, optimized |-> TRUE,
     fault |-> FALSE, result |-> NoResult, invoked |-> <<>>,
     pre_metrics |-> <<>>, pre_request_counter |-> 0, pre_error_counter |-> 0,
     pre_memo |-> EmptyMemo]

InitObject ==
    /\ request_counter = 0
    /\ error_counter = 0
    /\ recursion_depth_metrics = <<>>
    /\ memo = EmptyMemo
    /\ issued = <<>>
    /\ last = NoCall
    /\ tracemalloc = NotTracing

NoBatch ==
    /\ requests = <<>>
    /\ pc = <<>>
    /\ results = <<>>
    /\ semaphore = SemaphoreLimit
    /\ gathered = [done |-> FALSE, results |-> <<>>]
    /\ overtaken = FALSE

NoEngineCall ==
    /\ engine_arg = 0
    /\ engine_out = <<>>

Init ==
    /\ InitObject
    /\ NoBatch
    /\ NoEngineCall

\* POST /compute/{algorithm}: one process_recursive_task call
Dispatch(algorithm, n, use_optimization, fault) ==
    LET done == process_recursive_task(request_counter, error_counter,
                    recursion_depth_metrics, algorithm, n, use_optimization, fault)
    IN  /\ request_counter < MaxRequests
        /\ request_counter' = done.request_counter
        /\ error_counter' = done.error_counter
        /\ recursion_depth_metrics' = done.metrics
        /\ issued' = Append(issued, done.result.request_id)
        /\ last' = Call("dispatch", algorithm, n, use_optimization, fault,
                        done.result, done.invoked)
        /\ tracemalloc' = tracemalloc_after(tracemalloc, done.tracemalloc_calls)
        /\ UNCHANGED <<memo, batchVars, engineVars>>

\* a clear that also resets the dispatch counters
ClearMetricsResetsCounters ==
    /\ recursion_depth_metrics' = clear_metrics.metrics
    /\ memo' = clear_metrics.memo
    /\ request_counter' = 0
    /\ error_counter' = 0
    /\ last' = Call("clear", None, 0, TRUE, FALSE, NoResult, <<>>)
    /\ UNCHANGED tracemalloc
    /\ UNCHANGED <<issued, batchVars, engineVars>>

\* POST /clear-metrics
ClearMetrics ==
    /\ recursion_depth_metrics' = clear_metrics.metrics
    /\ memo' = clear_metrics.memo
    /\ last' = Call("clear", None, 0, TRUE, FALSE, NoResult, <<>>)
    /\ UNCHANGED tracemalloc
    /\ UNCHANGED <<request_counter, error_counter, issued, batchVars, engineVars>>

\* a fibonacci_memoized(n) call on the engine
Memoize(n) ==
    /\ memo' = fibonacci_memoized(n, 0, memo).memo
    /\ last' = Call("memoize", None, n, TRUE, FALSE, NoResult, <<>>)
    /\ UNCHANGED tracemalloc
    /\ UNCHANGED <<request_counter, error_counter, recursion_depth_metrics,
                   issued, batchVars, engineVars>>

Next ==
    \/ \E algorithm \in Algorithms, n \in Depths, use_optimization \in BOOLEAN,
          fault \in BOOLEAN :
            Dispatch(algorithm, n, use_optimization, fault)
    \/ ClearMetrics
    \/ \E n \in MemoArgs : Memoize(n)

Spec == Init /\ [][Next]_vars


(***************************************************************************)
(* SpecBatch: one process_multiple_requests call on a fresh object.        *)
(*                                                                         *)
(* Every member is a task that enters "async with semaphore", awaits       *)
(* process_recursive_task and leaves the semaphore.  process_recursive_task*)
(* holds no await, so its body runs in the step that admits the member;    *)
(* the member then holds its slot until __aexit__ releases it, and the     *)
(* model lets the other members run in between.  The tasks are started in  *)
(* list order and the semaphore wakes its waiters in arrival order.        *)
(***************************************************************************)
\* request.get('optimized', True)
get_optimized(request) ==
    IF request.optimized = "missing" THEN TRUE ELSE request.optimized = "True"

Request(algorithm, depth, optimized) ==
    [algorithm |-> algorithm, depth |-> depth, optimized |-> optimized]

BatchRequests ==
    {Request("fibonacci", NaiveFibLimit, "missing"),
     Request("fibonacci", NaiveFibLimit + 1, "False"),
     Request("tree_traversal", 0, "True"),
     Request("pathfinding", UnoptimizedDepthLimit + 1, "False")}

\* the batches of up to MaxSmallBatch mixed requests
SmallBatches ==
    UNION {[1..len -> BatchRequests] : len \in 1..MaxSmallBatch}

\* a batch of optimized fibonacci requests of depths 1, 2, ... that holds
\* two requests more than the gate has slots
LongBatch ==
    [i \in 1..(SemaphoreLimit + 2) |-> Request("fibonacci", i, "True")]

Members == 1..Len(requests)

\* a semaphore that never reports itself locked
semaphore_never_locked == FALSE

\* Semaphore.locked()
semaphore_locked == semaphore = 0

InitBatch ==
    /\ InitObject
    /\ NoEngineCall
    /\ requests \in SmallBatches \cup {LongBatch}
    /\ pc = [i \in Members |-> "pending"]
    /\ results = [i \in Members |-> NoResult]
    /\ semaphore = SemaphoreLimit
    /\ gathered = [done |-> FALSE, results |-> <<>>]
    /\ overtaken = FALSE

\* member i passes "async with semaphore" and runs process_recursive_task
Admit(i) ==
    LET done == process_recursive_task(request_counter, error_counter,
                    recursion_depth_metrics, requests[i].algorithm,
                    requests[i].depth, get_optimized(requests[i]), FALSE)
    IN  /\ pc[i] = "pending"
        /\ \A j \in 1..(i - 1) : pc[j] # "pending"
        /\ ~semaphore_locked
        /\ semaphore' = semaphore - 1
        /\ pc' = [pc EXCEPT ![i] = "admitted"]
        /\ request_counter' = done.request_counter
        /\ error_counter' = done.error_counter
        /\ recursion_depth_metrics' = done.metrics
        /\ issued' = Append(issued, done.result.request_id)
        /\ results' = [results EXCEPT ![i] = done.result]
        /\ tracemalloc' = tracemalloc_after(tracemalloc, done.tracemalloc_calls)
        /\ UNCHANGED <<memo, last, requests, gathered, overtaken, engineVars>>

\* the members that were admitted before i and still hold the semaphore
OlderHolders(i) == {j \in 1..(i - 1) : pc[j] = "admitted"}

\* member i leaves "async with semaphore": its task is complete
Release(i) ==
    /\ pc[i] = "admitted"
    /\ Cardinality(OlderHolders(i)) <= MaxOvertake
    /\ semaphore' = semaphore + 1
    /\ pc' = [pc EXCEPT ![i] = "done"]
    /\ overtaken' = (overtaken \/ OlderHolders(i) # {})
    /\ UNCHANGED tracemalloc
    /\ UNCHANGED <<objectVars, requests, results, gathered, engineVars>>

\* a gather that returns as soon as one member is complete
GatherFirstCompleted ==
    /\ ~gathered.done
    /\ \E i \in Members : pc[i] = "done"
    /\ gathered' = [done |-> TRUE, results |-> [i \in Members |-> results[i]]]
    /\ UNCHANGED tracemalloc
    /\ UNCHANGED <<objectVars, requests, pc, results, semaphore, overtaken,
                   engineVars>>

\* return await asyncio.gather(*tasks)
Gather ==
    /\ ~gathered.done
    /\ \A i \in Members : pc[i] = "done"
    /\ gathered' = [done |-> TRUE, results |-> [i \in Members |-> results[i]]]
    /\ UNCHANGED tracemalloc
    /\ UNCHANGED <<objectVars, requests, pc, results, semaphore, overtaken,
                   engineVars>>

NextBatch ==
    \/ \E i \in Members : Admit(i)
    \/ \E i \in Members : Release(i)
    \/ Gather

SpecBatch == InitBatch /\ [][NextBatch]_vars

(***************************************************************************)
(* SpecFib: the Fibonacci routines of a fresh engine applied to one        *)
(* argument.                                                               *)
(***************************************************************************)
FibArgs == (-2)..MaxFibArg

Called(routine) == routine \in DOMAIN engine_out

InitFib ==
    /\ request_counter = 0
    /\ error_counter = 0
    /\ recursion_depth_metrics = <<>>
    /\ issued = <<>>
    /\ last = NoCall
    /\ tracemalloc = NotTracing
    /\ NoBatch
    /\ engine_arg \in FibArgs
    /\ engine_out = <<>>
    /\ memo = EmptyMemo

\* the naive call, when it is made, is the first call on the argument
CallFibonacciNaive ==
    /\ engine_out = <<>>
    /\ engine_out' = engine_out @@ ("fibonacci_naive" :> fibonacci_naive(engine_arg))
    /\ UNCHANGED tracemalloc
    /\ UNCHANGED <<objectVars, batchVars, engine_arg>>

CallFibonacciIterative ==
    /\ ~Called("fibonacci_iterative")
    /\ engine_out' = engine_out @@
                        ("fibonacci_iterative" :> fibonacci_iterative(engine_arg))
    /\ UNCHANGED tracemalloc
    /\ UNCHANGED <<objectVars, batchVars, engine_arg>>

CallFibonacciMemoized ==
    LET call == fibonacci_memoized(engine_arg, 0, memo)
    IN  /\ ~Called("fibonacci_memoized")
        /\ engine_out' = engine_out @@ ("fibonacci_memoized" :> call.out)
        /\ memo' = call.memo
        /\ UNCHANGED tracemalloc
        /\ UNCHANGED <<request_counter, error_counter, recursion_depth_metrics,
                       issued, last, batchVars, engine_arg>>

NextFib ==
    \/ CallFibonacciNaive
    \/ CallFibonacciIterative
    \/ CallFibonacciMemoized

SpecFib == InitFib /\ [][NextFib]_vars

(***************************************************************************)
(* SpecTree: tree_traversal_naive and tree_traversal_iterative applied to  *)
(* one tree.  The trees are all the ordered trees of at most MaxTreeNodes  *)
(* nodes, of any branching; the nodes of a tree carry the labels 1, 2, ... *)
(* in the order "a node, then its subtrees from the first child to the     *)
(* last".                                                                  *)
(***************************************************************************)
\* TreesOf(lo, k): the trees of k nodes labelled lo .. lo + k - 1;
\* ForestsOf(lo, k): the sequences of trees of k nodes in all
RECURSIVE TreesOf(_, _)
RECURSIVE ForestsOf(_, _)
TreesOf(lo, k) == {Node(lo, f) : f \in ForestsOf(lo + 1, k - 1)}

ForestsOf(lo, k) ==
    IF k = 0 THEN {<<>>}
    ELSE UNION {{<<t>> \o f : t \in TreesOf(lo, j),
                              f \in ForestsOf(lo + j, k - j)} : j \in 1..k}

Trees == UNION {TreesOf(1, k) : k \in 1..MaxTreeNodes}

RECURSIVE Size(_)
RECURSIVE SizeOfAll(_)
Size(node) == 1 + SizeOfAll(node.children)

SizeOfAll(children) ==
    IF children = <<>> THEN 0
    ELSE Size(Head(children)) + SizeOfAll(Tail(children))

InitTree ==
    /\ request_counter = 0
    /\ error_counter = 0
    /\ recursion_depth_metrics = <<>>
    /\ issued = <<>>
    /\ last = NoCall
    /\ tracemalloc = NotTracing
    /\ memo = EmptyMemo
    /\ NoBatch
    /\ engine_arg \in Trees
    /\ engine_out = <<>>

CallTreeTraversalNaive ==
    /\ ~Called("tree_traversal_naive")
    /\ engine_out' = engine_out @@
                        ("tree_traversal_naive" :> tree_traversal_naive(engine_arg, 0))
    /\ UNCHANGED tracemalloc
    /\ UNCHANGED <<objectVars, batchVars, engine_arg>>

CallTreeTraversalIterative ==
    /\ ~Called("tree_traversal_iterative")
    /\ engine_out' = engine_out @@
                        ("tree_traversal_iterative" :>
                            tree_traversal_iterative(engine_arg))
    /\ UNCHANGED tracemalloc
    /\ UNCHANGED <<objectVars, batchVars, engine_arg>>

NextTree ==
    \/ CallTreeTraversalNaive
    \/ CallTreeTraversalIterative

SpecTree == InitTree /\ [][NextTree]_vars

(***************************************************************************)
(* SpecPath: pathfinding_naive from (0, 0) on one grid.  The grids are     *)
(* every pattern of obstacles on the grids of size up to MaxGridSize, with *)
(* the far corner and the end of the first row as targets, and, with the   *)
(* far corner as target, the obstacle-free grids and the grids of          *)
(* generate_grid of size up to MaxGridSize + 1.                            *)
(***************************************************************************)
Grids(size) == [0..(size - 1) -> [0..(size - 1) -> {0, 1}]]

FreeGrid(size) == [x \in 0..(size - 1) |-> [y \in 0..(size - 1) |-> 0]]

Corner(size) == <<size - 1, size - 1>>

LargerSizes == 1..(MaxGridSize + 1)

PathInput(grid, target) == [grid |-> grid, target |-> target]

InitPath ==
    /\ request_counter = 0
    /\ error_counter = 0
    /\ recursion_depth_metrics = <<>>
    /\ issued = <<>>
    /\ last = NoCall
    /\ tracemalloc = NotTracing
    /\ memo = EmptyMemo
    /\ NoBatch
    /\ \/ \E size \in 1..MaxGridSize :
            \E grid \in Grids(size), target \in {Corner(size), <<0, size - 1>>} :
                engine_arg = PathInput(grid, target)
       \/ \E size \in LargerSizes :
            \E grid \in {FreeGrid(size), generate_grid(size)} :
                engine_arg = PathInput(grid, Corner(size))
    /\ engine_out = <<>>

\* pathfinding_naive(grid, 0, 0, target_x, target_y)
CallPathfindingNaive ==
    /\ ~Called("pathfinding_naive")
    /\ engine_out' = engine_out @@
            ("pathfinding_naive" :>
                pathfinding_naive(engine_arg.grid, 0, 0, engine_arg.target[1],
                                  engine_arg.target[2], <<>>, 0))
    /\ UNCHANGED tracemalloc
    /\ UNCHANGED <<objectVars, batchVars, engine_arg>>

NextPath == CallPathfindingNaive

SpecPath == InitPath /\ [][NextPath]_vars

(***************************************************************************)
(* SpecTreeTask: tree_traversal dispatches on one OptimizedRecursion       *)
(* object, with depths on both sides of every guard of the branch and the  *)
(* depths up to MaxChainDepth, whose trees the model traverses.            *)
(***************************************************************************)
TreeDepths ==
    (0..MaxChainDepth)
    \cup {NaiveTreeLimit, NaiveTreeLimit + 1,
          TraversalDepthLimit, TraversalDepthLimit + 1,
          UnoptimizedDepthLimit, UnoptimizedDepthLimit + 1}

NextTreeTask ==
    \E n \in TreeDepths, use_optimization \in BOOLEAN, fault \in BOOLEAN :
        Dispatch("tree_traversal", n, use_optimization, fault)

SpecTreeTask == Init /\ [][NextTreeTask]_vars

(***************************************************************************)
(* Claims checked under Spec.                                              *)
(***************************************************************************)
EngineRoutines == {"fibonacci_iterative", "fibonacci_naive",
                   "tree_traversal_iterative", "tree_traversal_naive",
                   "pathfinding_naive"}

\* the last call is a dispatch
Dispatched == last.op = "dispatch"
\* the last dispatch invoked a routine of the recursion engine
ReachedEngine == \E i \in 1..Len(last.invoked) : last.invoked[i] \in EngineRoutines
\* the last dispatch was rejected by the input validation
RejectedAtValidation ==
    \/ last.n <= 0
    \/ ~last.optimized /\ last.n > 10000
\* the store holds what it held before the last call plus one record of it
OneRecordAppended(success) ==
    recursion_depth_metrics =
        Append(last.pre_metrics,
               [recursion_depth |-> last.n, algorithm |-> last.algorithm,
                success |-> success])
StoreUntouched == recursion_depth_metrics = last.pre_metrics

\* C3: a dispatch that passes validation and reaches the recursion engine
\* appends exactly one record, with success=true when it succeeded and
\* success=false when it failed; a dispatch rejected at validation appends
\* none; the store grows by 0 or 1 per dispatch.
C3_OneRecordPerEngineCall ==
    Dispatched =>
        /\ (ReachedEngine /\ ~RejectedAtValidation)
                => OneRecordAppended(last.result.success)
        /\ RejectedAtValidation => StoreUntouched
        /\ Len(recursion_depth_metrics) - Len(last.pre_metrics) \in {0, 1}

\* C4: the request ids returned are 1, 2, 3, ... in call order, whatever
\* the outcome of the dispatches and whatever clears come between them.
C4_RequestIdsCountUp ==
    \A i \in 1..Len(issued) : issued[i] = i

\* C4 witness: a dispatch issued after an earlier successful one was cleared
C4_Witness ==
    /\ Dispatched
    /\ Len(issued) >= 2
    /\ last.pre_request_counter >= 1
    /\ last.pre_error_counter = 0
    /\ last.pre_metrics = <<>>

\* C5: clear_metrics leaves the store and the memoization cache empty, so
\* that the recent records are none, and leaves request_counter and
\* error_counter (hence the next request id) as they were.
C5_ClearFrame ==
    last.op = "clear" =>
        /\ recursion_depth_metrics = <<>>
        /\ memo = EmptyMemo
        /\ recent(recursion_depth_metrics, 10) = <<>>
        /\ get_metrics.recursion_metrics = <<>>
        /\ request_counter = last.pre_request_counter
        /\ error_counter = last.pre_error_counter
        /\ process_recursive_task(request_counter, error_counter,
               recursion_depth_metrics, "fibonacci", 1, TRUE, FALSE
           ).result.request_id = last.pre_request_counter + 1

\* C5 witness: a clear of a store and a cache that both held something,
\* after failed and successful dispatches
C5_Witness ==
    /\ last.op = "clear"
    /\ last.pre_metrics # <<>>
    /\ last.pre_memo # EmptyMemo
    /\ last.pre_request_counter > 0
    /\ last.pre_error_counter > 0

\* the successful and the failed records of the store
StoredSuccesses ==
    Cardinality({i \in 1..Len(recursion_depth_metrics) :
                    recursion_depth_metrics[i].success = TRUE})
StoredFailures == Len(recursion_depth_metrics) - StoredSuccesses

\* C6: with N successful and M failed records in the store the statistics
\* report successful_requests = N, failed_requests = M, total_requests =
\* N + M and error_rate = M / (N + M) * 100, and error_rate 0 when N + M = 0.
C6_StatsFromStore ==
    LET stats == get_performance_stats
        N == StoredSuccesses
        M == StoredFailures
    IN  /\ stats.successful_requests = N
        /\ stats.failed_requests = M
        /\ stats.total_requests = N + M
        /\ IF N + M = 0 THEN stats.error_rate_num = 0
           ELSE stats.error_rate_num * (N + M) = M * 100 * stats.error_rate_den

\* C7: a dispatch with depth <= 0, or unoptimized with depth > 10000 for
\* fibonacci or tree_traversal, returns a failed InvalidInput result, invokes
\* no engine routine and no input generator, and leaves the store as it was.
C7_ValidationRejects ==
    (/\ Dispatched
     /\ \/ last.n <= 0
        \/ /\ ~last.optimized
           /\ last.n > 10000
           /\ last.algorithm \in {"fibonacci", "tree_traversal"})
    =>  /\ ~last.result.success
        /\ last.result.error.type = "ValueError"
        /\ last.invoked = <<>>
        /\ StoreUntouched

\* C7 witness: depth 0 rejected on a store that holds a record
C7_Witness ==
    /\ Dispatched
    /\ last.n = 0
    /\ last.algorithm = "fibonacci"
    /\ last.pre_metrics # <<>>
    /\ ~last.result.success

\* the depth-exceeded outcome of a naive Fibonacci dispatch
NaiveFibDepthExceeded ==
    /\ ~last.result.success
    /\ last.result.error.type = "RecursionError"
    /\ last.result.request_id = last.pre_request_counter + 1
    /\ "fibonacci_naive" \notin {last.invoked[i] : i \in 1..Len(last.invoked)}
    /\ OneRecordAppended(FALSE)

\* C8 as stated: every naive Fibonacci call with n > 35 fails with
\* DepthExceeded and is recorded as one failed record.
C8_Original ==
    (Dispatched /\ last.algorithm = "fibonacci" /\ ~last.optimized /\ last.n > 35)
        => NaiveFibDepthExceeded

\* C8: a naive Fibonacci dispatch with 35 < n <= 10000 does not run
\* fibonacci_naive: it returns a failed result that carries the
\* RecursionError, and appends exactly one record with success=false.
C8_NaiveFibGuard ==
    (/\ Dispatched
     /\ last.algorithm = "fibonacci"
     /\ ~last.optimized
     /\ last.n > 35
     /\ last.n <= 10000)
        => NaiveFibDepthExceeded

\* C8 witness: fibonacci, unoptimized, n = 36
C8_Witness ==
    /\ Dispatched
    /\ last.algorithm = "fibonacci"
    /\ ~last.optimized
    /\ last.n = 36
    /\ last.result.error.type = "RecursionError"

\* C9: a dispatch whose engine call fails with an unexpected exception
\* returns a failed result, adds one to error_counter and appends exactly
\* one record with success=false.
C9_InternalFaultRecorded ==
    (Dispatched /\ last.result.error.type = "Exception")
    =>  /\ ~last.result.success
        /\ error_counter = last.pre_error_counter + 1
        /\ OneRecordAppended(FALSE)

(***************************************************************************)
(* Claims checked under SpecBatch.                                         *)
(***************************************************************************)
\* the members inside the gate: admitted and not yet complete
InFlight == {i \in Members : pc[i] = "admitted"}

\* C1: never more than 50 members are inside the gate at once, and a
\* member beyond the first 50 is admitted only after an admitted member
\* has completed.
C1_AtMostFiftyInFlight ==
    /\ Cardinality(InFlight) <= 50
    /\ \A i \in Members :
          (i > 50 /\ pc[i] # "pending") => \E j \in 1..(i - 1) : pc[j] = "done"

\* C1 witness: the 51st member inside the gate together with 49 others
\* while a 52nd waits
C1_Witness ==
    /\ Len(requests) >= 52
    /\ pc[51] = "admitted"
    /\ pc[52] = "pending"
    /\ Cardinality(InFlight) = 50

\* the result process_recursive_task gives the i-th request of the batch
\* when it is the i-th call on a fresh object
ExpectedResult(i) ==
    LET run == run_task(requests[i].algorithm, requests[i].depth,
                        get_optimized(requests[i]), FALSE)
    IN  [success |-> run.raised = NoError, error |-> run.raised,
         recursion_depth |-> requests[i].depth, request_id |-> i]

\* C2: process_multiple_requests returns only when every member is
\* complete; it returns one result per request, the i-th being the result
\* of the i-th request, in whatever order the members completed; nothing
\* is returned before.
C2_GatherInOrder ==
    /\ gathered.done =>
          /\ \A i \in Members : pc[i] = "done"
          /\ Len(gathered.results) = Len(requests)
          /\ \A i \in Members : gathered.results[i] = ExpectedResult(i)
    /\ ~gathered.done => gathered.results = <<>>

\* C2 witness: a returned batch of two different requests whose members
\* completed out of order
C2_Witness ==
    /\ gathered.done
    /\ overtaken
    /\ Len(requests) = 2
    /\ requests[1] # requests[2]
    /\ gathered.results[1].success # gathered.results[2].success

(***************************************************************************)
(* Claims checked under SpecFib.                                           *)
(***************************************************************************)
\* the Fibonacci numbers F(0), F(1), ... , F(32)
FibonacciNumbers ==
    <<0, 1, 1, 2, 3, 5, 8, 13, 21, 34, 55, 89, 144, 233, 377, 610, 987, 1597,
      2584, 4181, 6765, 10946, 17711, 28657, 46368, 75025, 121393, 196418,
      317811, 514229, 832040, 1346269, 2178309>>
F(n) == FibonacciNumbers[n + 1]

\* C10: for 0 <= n <= 30 (and every larger n of the model) fibonacci_naive(n)
\* and fibonacci_iterative(n) return the same value, the Fibonacci number
\* F(n); for n < 0 both raise ValueError.
C10_NaiveEqualsIterative ==
    (Called("fibonacci_naive") /\ Called("fibonacci_iterative")) =>
        LET naive == engine_out["fibonacci_naive"]
            iterative == engine_out["fibonacci_iterative"]
        IN  IF engine_arg < 0
            THEN naive.kind = "ValueError" /\ iterative.kind = "ValueError"
            ELSE /\ naive.kind = "ok"
                 /\ iterative.kind = "ok"
                 /\ naive.value = iterative.value
                 /\ iterative.value = F(engine_arg)

\* C10 witness: both routines called on 30 and returning 832040
C10_Witness ==
    /\ engine_arg = 30
    /\ Called("fibonacci_naive")
    /\ Called("fibonacci_iterative")
    /\ engine_out["fibonacci_naive"].value = 832040
    /\ engine_out["fibonacci_iterative"].value = 832040

(***************************************************************************)
(* Claims checked under SpecTree.                                          *)
(***************************************************************************)
\* the labels 1 .. k in order: the pre-order sequence of a tree of Trees
PreOrder(tree) == [i \in 1..Size(tree) |-> i]

\* C11: on every tree the naive and the iterative traversal return the same
\* label sequence, the pre-order one: a node before its children, the
\* children in stored order
C11_NaiveEqualsIterativeTraversal ==
    /\ Called("tree_traversal_naive") =>
            /\ engine_out["tree_traversal_naive"].kind = "ok"
            /\ engine_out["tree_traversal_naive"].value = PreOrder(engine_arg)
    /\ Called("tree_traversal_iterative") =>
            /\ engine_out["tree_traversal_iterative"].kind = "ok"
            /\ engine_out["tree_traversal_iterative"].value = PreOrder(engine_arg)

\* both traversals have run on a tree with a node of three children, one
\* of them with two children of its own
C11_Witness ==
    /\ Called("tree_traversal_naive")
    /\ Called("tree_traversal_iterative")
    /\ Len(engine_arg.children) = 3
    /\ \E i \in 1..3 : Len(engine_arg.children[i].children) = 2
    /\ engine_out["tree_traversal_naive"] = engine_out["tree_traversal_iterative"]

(***************************************************************************)
(* Claims checked under SpecPath.                                          *)
(***************************************************************************)
GridSize == Cardinality(DOMAIN engine_arg.grid)

IsFree(cell) ==
    /\ cell[1] \in 0..(GridSize - 1)
    /\ cell[2] \in 0..(GridSize - 1)
    /\ engine_arg.grid[cell[1]][cell[2]] = 0

Adjacent(a, b) ==
    \/ a[1] = b[1] /\ (a[2] = b[2] + 1 \/ b[2] = a[2] + 1)
    \/ a[2] = b[2] /\ (a[1] = b[1] + 1 \/ b[1] = a[1] + 1)

\* a path of free in-bounds cells from (0, 0) to the target, each cell
\* 4-adjacent to the one before, none met twice
SimplePathToTarget(path) ==
    /\ path # <<>>
    /\ path[1] = <<0, 0>>
    /\ path[Len(path)] = engine_arg.target
    /\ \A i \in 1..Len(path) : IsFree(path[i])
    /\ \A i \in 1..(Len(path) - 1) : Adjacent(path[i], path[i + 1])
    /\ \A i, j \in 1..Len(path) : path[i] = path[j] => i = j

\* the simple paths to the target that extend path by the cell, in the
\* order a depth-first search taking the directions in their order meets
\* them
RECURSIVE Discovered(_, _)
Discovered(path, cell) ==
    IF cell \in Cells(path) \/ ~IsFree(cell) THEN <<>>
    ELSE IF cell = engine_arg.target THEN <<Append(path, cell)>>
    ELSE Discovered(Append(path, cell), <<cell[1] + 1, cell[2]>>)
         \o Discovered(Append(path, cell), <<cell[1] - 1, cell[2]>>)
         \o Discovered(Append(path, cell), <<cell[1], cell[2] + 1>>)
         \o Discovered(Append(path, cell), <<cell[1], cell[2] - 1>>)

\* the first of the shortest paths of a sequence of paths
FirstShortest(paths) ==
    LET lengths == {Len(paths[i]) : i \in 1..Len(paths)}
        least == CHOOSE n \in lengths : \A m \in lengths : n <= m
        shortest == {i \in 1..Len(paths) : Len(paths[i]) = least}
    IN  paths[CHOOSE i \in shortest : \A j \in shortest : i <= j]

ObstacleFree == \A x, y \in 0..(GridSize - 1) : engine_arg.grid[x][y] = 0

\* C12: pathfinding_naive from (0, 0) returns the empty path when no simple
\* path reaches the target, and otherwise the first discovered of the
\* shortest simple paths, a path of free 4-adjacent cells from (0, 0) to
\* the target without a repeated cell; on the obstacle-free n x n grid with
\* the far corner as target it has 2n - 1 cells
C12_ShortestSimplePath ==
    Called("pathfinding_naive") =>
        LET out == engine_out["pathfinding_naive"]
            all == Discovered(<<>>, <<0, 0>>)
        IN  /\ out.kind = "ok"
            /\ all = <<>> => out.value = <<>>
            /\ all # <<>> =>
                    /\ out.value = FirstShortest(all)
                    /\ SimplePathToTarget(out.value)
            /\ ObstacleFree /\ engine_arg.target = Corner(GridSize) =>
                    Len(out.value) = 2 * GridSize - 1

\* the search has returned 2n - 1 cells on the largest obstacle-free grid
C12_Witness ==
    /\ Called("pathfinding_naive")
    /\ ObstacleFree
    /\ GridSize = MaxGridSize + 1
    /\ engine_arg.target = Corner(GridSize)
    /\ Len(engine_out["pathfinding_naive"].value) = 2 * GridSize - 1

\* the search has returned the empty path on a grid whose target is walled in
C12_Unreachable ==
    /\ Called("pathfinding_naive")
    /\ IsFree(<<0, 0>>) /\ IsFree(engine_arg.target)
    /\ engine_out["pathfinding_naive"].value = <<>>

(***************************************************************************)
(* Claims checked under SpecTreeTask.                                      *)
(***************************************************************************)
\* the last call is a naive tree traversal dispatch whose engine calls
\* raise nothing unexpected
NaiveTreeDispatched ==
    /\ Dispatched
    /\ last.algorithm = "tree_traversal"
    /\ ~last.optimized
    /\ ~last.fault

\* the failed result of a depth-exceeded condition
DepthExceeded ==
    /\ ~last.result.success
    /\ last.result.error.type = "RecursionError"

\* the labels of the "result" key of the last dispatch
Labels == tree_traversal_result(last.n, last.optimized)

\* C13 as stated: a naive tree traversal dispatch succeeds for every depth
\* 0 < d <= 1000 and fails with DepthExceeded for 1000 < d <= 10000
C13_Original ==
    NaiveTreeDispatched =>
        /\ (last.n > 0 /\ last.n <= 1000) => last.result.success
        /\ (last.n > 1000 /\ last.n <= 10000) => DepthExceeded

\* C13: a naive tree traversal dispatch succeeds for every depth
\* 0 < d <= 500, returning the d + 1 labels of the generated chain (counted
\* for d <= MaxChainDepth), and fails with DepthExceeded for
\* 500 < d <= 10000
C13_NaiveTreeGuard ==
    NaiveTreeDispatched =>
        /\ (last.n > 0 /\ last.n <= 500) =>
                /\ last.result.success
                /\ last.n <= MaxChainDepth =>
                        /\ Labels.kind = "ok"
                        /\ Len(Labels.value) = last.n + 1
        /\ (last.n > 500 /\ last.n <= 10000) => DepthExceeded

\* after a naive dispatch of depth 500 that succeeded, one of the deepest
\* traversed chain has succeeded and returned its labels
C13_Witness ==
    /\ NaiveTreeDispatched
    /\ last.n = MaxChainDepth
    /\ last.result.success
    /\ Len(Labels.value) = MaxChainDepth + 1
    /\ Len(recursion_depth_metrics) = 2
    /\ recursion_depth_metrics[1] =
            [recursion_depth |-> 500, algorithm |-> "tree_traversal",
             success |-> TRUE]

(***************************************************************************)
(* Memory-tracking scopes, checked under SpecBatch.                        *)
(***************************************************************************)
\* C14: the memory-tracking scopes of concurrently issued calls never
\* overlap: no start comes while another call's scope is open, and every
\* call that has run has made one start and one stop on whichever exit
\* path it took, so no scope is open when the next call starts
C14_ScopesNeverOverlap ==
    /\ ~tracemalloc.overlapped
    /\ ~tracemalloc.tracing
    /\ tracemalloc.starts = request_counter
    /\ tracemalloc.stops = request_counter

\* two members are inside the gate at once, one that took the success path
\* and one that took the RecursionError path
C14_Witness ==
    /\ \E i, j \in InFlight :
            /\ results[i].success
            /\ results[j].error.type = "RecursionError"
    /\ tracemalloc.stops >= 2

====
